---- MODULE Spec2Model ----
(***************************************************************************)
(* Cross-service consistency pipeline of the investment platform:          *)
(*   - commitment-service: CommitmentRepository + EventPublisher           *)
(*   - the "investor_updates" Redis pub/sub channel                        *)
(*   - investor-service: EventSubscriber (aggregator) + InvestorRepository *)
(*   - ingestion-service: DataProcessor and its three managers             *)
(* Amounts are integers (minor units): sums are exact.                     *)
(***************************************************************************)
EXTENDS Integers, Sequences, FiniteSets, Bags, TLC

VARIABLES
    \* ---- commitment-service (sqlite connection shared by all requests)
    committed,      \* rows of table commitments that are committed
    pending,        \* rows inserted in the connection's open transaction
    nextId,         \* next fresh commitment id (uuid4 stand-in)
    req,            \* per request slot: position in create / bulk_create
    redisConn,      \* EventPublisher._redis is not None
    \* ---- history of the commitment service
    publishedIds,   \* commitment ids whose event reached redis.publish successfully
    dupPublish,     \* some commitment id was published twice
    rolledBack,     \* ids of inserts removed by connection.rollback()
    pubFailed,      \* ids of the records whose publish raised (Redis error or no connection)
    \* ---- channel
    channel,        \* bag of messages in flight to the subscriber
    subscribed,     \* EventSubscriber._pubsub is subscribed to investor_updates
    chanFault,      \* a message was lost (no subscriber) or duplicated
    injected,       \* malformed messages put on the channel so far
    dups,           \* redeliveries made by the channel so far
    \* ---- investor-service
    investors,      \* investor id -> [commitment_count, total_commitment_amount]
    listener,       \* start_listening task: pc, _running, event in hand
    missedInv,      \* some event was dropped because its investor was not found
    agg0,           \* aggregate of InvX when the channel was filled (aggregator spec)
    sent,           \* number and sum of the events for InvX put on the channel (aggregator spec)
    delivered,      \* last event id applied for InvX, and whether one was applied after
                    \* an event published later (aggregator spec)
    \* ---- ingestion-service and the stores it talks to
    df,             \* the input DataFrame: columns present, rows
    fillers,        \* investors in the investor store whose names sort before the batch's
    invStore,       \* investor name -> number of investor documents with that name
    acStore,        \* asset class name -> number of asset class documents with that name
    cmStore,        \* bag of the commitment keys held by the commitment store
    run,            \* process_dataframe: position, mappings, request, result
    prev            \* what the previous run of the same batch ended with

vars == << committed, pending, nextId, req, redisConn, publishedIds, dupPublish,
           rolledBack, pubFailed, channel, subscribed, chanFault, injected, dups,
           investors, listener, missedInv, agg0, sent, delivered,
           df, fillers, invStore, acStore, cmStore, run, prev >>

ingVars == << df, fillers, invStore, acStore, cmStore, run, prev >>
csVars  == << committed, pending, nextId, req, redisConn, publishedIds, dupPublish,
              rolledBack, pubFailed >>
aggHist == << agg0, sent, delivered >>
chanHist == << injected, dups >>

----------------------------------------------------------------------------
\* Bounds of the model

MaxCommitments == 2     \* commitment rows prepared over a run of the pipeline
MaxBatch == 2           \* rows of one bulk-create request
MaxMalformed == 1       \* malformed messages put on the channel
MaxDup == 1             \* redeliveries of a message by the channel
MaxEvents == 3          \* events on the channel in the aggregator spec

InvestorIds == {"i1", "i2"}
InvX == "i1"
Amounts == {50, 100, 250}
ReqAmounts == {100, 250}
OtherAmount == 100
Slots == {"r1", "r2"}
AssetA == "a1"
GBP == "GBP"

RECURSIVE SumSeq(_)
SumSeq(s) == IF s = << >> THEN 0 ELSE Head(s) + SumSeq(Tail(s))

RECURSIVE SumAmounts(_)
SumAmounts(S) ==
    IF S = {} THEN 0
    ELSE LET c == CHOOSE x \in S : TRUE IN c.amount + SumAmounts(S \ {c})

Ids(S) == {c.id : c \in S}

----------------------------------------------------------------------------
\* commitment-service: models/commitment.py, repositories/commitment_repository.py,
\* services/event_publisher.py

\* prepare_commitment_for_db: the request body plus a fresh id
prepare_commitment_for_db(inv, amt, id) ==
    [id |-> id, investor_id |-> inv, asset_class_id |-> AssetA,
     amount |-> amt, currency |-> GBP]

\* CommitmentCreatedEvent(...).model_dump_json()
CommitmentCreatedEvent(c) ==
    [kind |-> "event", event_type |-> "commitment_created", commitment_id |-> c.id,
     investor_id |-> c.investor_id, amount |-> c.amount]

\* a request slot: rows = the rows this request inserted, found = the rows its SELECT
\* returned, left = the rows whose publish has not returned yet, tried = the rows
\* whose publish has run
IdleReq == [pc |-> "idle", kind |-> "none", rows |-> {}, found |-> {}, left |-> {},
            tried |-> {}, didCommit |-> FALSE, result |-> "none"]

\* connection.commit(): the open transaction becomes durable
AfterCommit(c, p) == c \cup p

\* rows a SELECT on the shared connection sees
Visible == committed \cup pending

\* connection.rollback(): the open transaction of the shared connection is dropped
Rollback ==
    /\ pending' = {}
    /\ rolledBack' = rolledBack \cup Ids(pending)

\* create_commitment, lines 105-121: prepare + INSERT
CreateInsert(r, inv, amt) ==
    /\ req[r].pc \in {"idle", "done"}
    /\ nextId <= MaxCommitments
    /\ LET row == prepare_commitment_for_db(inv, amt, nextId) IN
       /\ nextId' = nextId + 1
       /\ pending' = pending \cup {row}
       /\ req' = [req EXCEPT ![r] = [IdleReq EXCEPT !.pc = "inserted",
                                        !.kind = "single", !.rows = {row}]]
    /\ UNCHANGED << ingVars, committed, redisConn, publishedIds, dupPublish, rolledBack,
                    pubFailed, channel, subscribed, chanFault, investors, listener,
                    missedInv, aggHist, chanHist >>

\* bulk_create_commitments, lines 162-189: prepare every row + executemany
BulkInsert(r, payload) ==
    /\ req[r].pc \in {"idle", "done"}
    /\ nextId + Len(payload) - 1 <= MaxCommitments
    /\ LET rows == {prepare_commitment_for_db(payload[k][1], payload[k][2], nextId + k - 1)
                        : k \in 1..Len(payload)} IN
       /\ nextId' = nextId + Len(payload)
       /\ pending' = pending \cup rows
       /\ req' = [req EXCEPT ![r] = [IdleReq EXCEPT !.pc = "inserted",
                                        !.kind = "bulk", !.rows = rows]]
    /\ UNCHANGED << ingVars, committed, redisConn, publishedIds, dupPublish, rolledBack,
                    pubFailed, channel, subscribed, chanFault, investors, listener,
                    missedInv, aggHist, chanHist >>

\* the INSERT / executemany / commit raises: except Exception -> rollback, return None / []
DbError(r) ==
    /\ req[r].pc = "inserted"
    /\ pending # {}
    /\ Rollback
    /\ req' = [req EXCEPT ![r].pc = "done", ![r].result = "none"]
    /\ UNCHANGED << ingVars, committed, nextId, redisConn, publishedIds, dupPublish,
                    pubFailed, channel, subscribed, chanFault, investors, listener,
                    missedInv, aggHist, chanHist >>

\* connection.commit() succeeds (lines 123, 191)
Commit(r) ==
    /\ req[r].pc = "inserted"
    /\ committed' = AfterCommit(committed, pending)
    /\ pending' = {}
    /\ req' = [req EXCEPT ![r].pc = "committed",
                          ![r].didCommit = (req[r].rows \subseteq AfterCommit(committed, pending))]
    /\ UNCHANGED << ingVars, nextId, redisConn, publishedIds, dupPublish, rolledBack,
                    pubFailed, channel, subscribed, chanFault, investors, listener,
                    missedInv, aggHist, chanHist >>

\* the rows of request r that its SELECT reads back: get_commitment_by_id (line 125),
\* SELECT ... WHERE id IN (...) (lines 194-217)
FoundRowsUnchecked(r) == req[r].rows
FoundRows(r) == req[r].rows \cap Visible

Fetch(r) ==
    /\ req[r].pc = "committed"
    /\ LET found == FoundRows(r) IN
       req' = [req EXCEPT ![r] =
                 IF found = {}
                 THEN [@ EXCEPT !.pc = "done", !.result = "none"]
                 ELSE [@ EXCEPT !.pc = "publishing", !.found = found, !.left = found]]
    /\ UNCHANGED << ingVars, committed, pending, nextId, redisConn, publishedIds, dupPublish,
                    rolledBack, pubFailed, channel, subscribed, chanFault, investors,
                    listener, missedInv, aggHist, chanHist >>

\* the read that follows the commit raises (get_commitment_by_id, line 125; the
\* SELECT ... WHERE id IN, lines 194-201): except Exception -> rollback, return
\* None / []; the commit of line 123 / 191 stands
FetchError(r) ==
    /\ req[r].pc = "committed"
    /\ Rollback
    /\ req' = [req EXCEPT ![r].pc = "done", ![r].result = "none"]
    /\ UNCHANGED << ingVars, committed, nextId, redisConn, publishedIds, dupPublish,
                    pubFailed, channel, subscribed, chanFault, investors, listener,
                    missedInv, aggHist, chanHist >>

\* redis.publish delivers to the current subscribers only (fire and forget)
Deliver(m) ==
    IF subscribed
    THEN /\ channel' = channel (+) SetToBag({m})
         /\ UNCHANGED chanFault
    ELSE /\ chanFault' = TRUE
         /\ UNCHANGED channel

NotePublished(c) ==
    /\ publishedIds' = publishedIds \cup {c.id}
    /\ dupPublish' = (dupPublish \/ c.id \in publishedIds)

\* what is left of a request once row c's publish has returned
AfterPublish(r, c) ==
    LET left == req[r].left \ {c} IN
    [req EXCEPT ![r] = IF left = {}
                        THEN [@ EXCEPT !.pc = "done", !.left = {}, !.result = "created",
                                       !.tried = @ \cup {c}]
                        ELSE [@ EXCEPT !.left = left, !.tried = @ \cup {c}]]

\* publish_commitment_created, lines 38-56: the publish succeeds
PublishOk(r, c) ==
    /\ req[r].pc = "publishing"
    /\ c \in req[r].left
    /\ redisConn
    /\ Deliver(CommitmentCreatedEvent(c))
    /\ NotePublished(c)
    /\ req' = AfterPublish(r, c)
    /\ UNCHANGED << ingVars, committed, pending, nextId, redisConn, rolledBack, pubFailed,
                    subscribed, investors, listener, missedInv, aggHist, chanHist >>

\* publish_commitment_created, lines 58-61: the except clause logs the error and
\* the finally clause logs; the event is neither kept for a later publish nor
\* sent again
OnPublishErrorRequeue(c) == Deliver(CommitmentCreatedEvent(c))
OnPublishError(c) == UNCHANGED << channel, chanFault >>

\* publish_commitment_created, lines 58-59: redis.RedisError is logged and swallowed
PublishRedisError(r, c) ==
    /\ req[r].pc = "publishing"
    /\ c \in req[r].left
    /\ redisConn
    /\ pubFailed' = pubFailed \cup {c.id}
    /\ OnPublishError(c)
    /\ req' = AfterPublish(r, c)
    /\ UNCHANGED << ingVars, committed, pending, nextId, redisConn, publishedIds, dupPublish,
                    rolledBack, subscribed, investors, listener,
                    missedInv, aggHist, chanHist >>

\* publish_commitment_created, lines 47-48: RuntimeError("No Redis connection found")
\* is no redis.RedisError, so it leaves the publisher.
\*   create_commitment: caught by `except Exception` (145-148): rollback, return None
\*   bulk_create_commitments: captured by gather(return_exceptions=True) (232)
\* an exception that leaves a publish of a request of this kind is kept as a
\* result by asyncio.gather(*publish_tasks, return_exceptions=True), line 232
CapturedNever(kind) == FALSE
Captured(kind) == kind = "bulk"

PublishNoConnection(r, c) ==
    /\ req[r].pc = "publishing"
    /\ c \in req[r].left
    /\ ~redisConn
    /\ pubFailed' = pubFailed \cup {c.id}
    /\ IF ~Captured(req[r].kind)
       THEN /\ Rollback
            /\ req' = [req EXCEPT ![r].pc = "done", ![r].left = {},
                                  ![r].tried = @ \cup {c}, ![r].result = "none"]
       ELSE /\ req' = AfterPublish(r, c)
            /\ UNCHANGED << pending, rolledBack >>
    /\ UNCHANGED << ingVars, committed, nextId, redisConn, publishedIds, dupPublish,
                    channel, subscribed, chanFault, investors, listener,
                    missedInv, aggHist, chanHist >>

\* EventPublisher.connect, lines 21-29
PublisherConnect ==
    /\ ~redisConn
    /\ redisConn' = TRUE
    /\ UNCHANGED << ingVars, committed, pending, nextId, req, publishedIds, dupPublish,
                    rolledBack, pubFailed, channel, subscribed, chanFault, investors,
                    listener, missedInv, aggHist, chanHist >>

----------------------------------------------------------------------------
\* the channel "investor_updates"

NoEvent == [kind |-> "none", event_type |-> "", commitment_id |-> 0,
            investor_id |-> "", amount |-> 0]

\* message bodies that are not a well-formed commitment_created event
MalformedKinds == {"bad_json", "not_object", "no_investor_id", "no_amount",
                   "bad_amount", "null_amount", "unknown_type"}

Malformed(k, inv) ==
    [kind |-> k, event_type |-> IF k = "unknown_type" THEN "other" ELSE "commitment_created",
     commitment_id |-> 0, investor_id |-> IF k = "no_investor_id" THEN "" ELSE inv,
     amount |-> 0]

\* messages put on the channel so far by publishers other than the commitment service
ChannelInputs == (nextId - 1) + injected + dups

\* any client may publish any bytes on the channel
InjectMalformed(k, inv) ==
    /\ injected < MaxMalformed
    /\ ChannelInputs < MaxEvents
    /\ subscribed
    /\ injected' = injected + 1
    /\ channel' = channel (+) SetToBag({Malformed(k, inv)})
    /\ UNCHANGED << ingVars, csVars, subscribed, chanFault, dups, investors, listener,
                    missedInv, aggHist >>

\* at-least-once delivery: a message in flight is delivered once more
Duplicate(m) ==
    /\ dups < MaxDup
    /\ ChannelInputs < MaxEvents
    /\ BagIn(m, channel)
    /\ dups' = dups + 1
    /\ chanFault' = TRUE
    /\ channel' = channel (+) SetToBag({m})
    /\ UNCHANGED << ingVars, csVars, subscribed, injected, investors, listener,
                    missedInv, aggHist >>

----------------------------------------------------------------------------
\* investor-service: models/investor.py, repositories/investor_repository.py,
\* services/event_subscriber.py, main.py

\* prepare_investor_for_db, lines 142-149 of models/investor.py
prepare_investor_for_db == [commitment_count |-> 0, total_commitment_amount |-> 0]

\* InvestorRepository.create_investor / bulk_create_investors
CreateInvestor(i) ==
    /\ i \notin DOMAIN investors
    /\ investors' = [j \in DOMAIN investors \cup {i} |->
                        IF j = i THEN prepare_investor_for_db ELSE investors[j]]
    /\ UNCHANGED << ingVars, csVars, channel, subscribed, chanFault, chanHist, listener,
                    missedInv, aggHist >>

\* the exception a message body raises in the handlers, "none" when it raises nothing
\*   json.loads(message['data'])            line 74   bad_json    -> JSONDecodeError
\*   event_data.get('event_type')           line 75   not_object  -> AttributeError
\*   event_data['amount']                   line 96   no_amount   -> KeyError
\*   Decimal(event_data['amount'])          line 96   bad_amount  -> decimal.InvalidOperation
\*                                                    null_amount -> TypeError
Raised(m) ==
    CASE m.kind = "bad_json"    -> "JSONDecodeError"
      [] m.kind = "not_object"  -> "AttributeError"
      [] m.kind = "no_amount"   -> "KeyError"
      [] m.kind = "bad_amount"  -> "InvalidOperation"
      [] m.kind = "null_amount" -> "TypeError"
      [] OTHER                  -> "none"

\* raised inside _handle_commitment_created (the others are raised in _handle_message)
RaisedInner(m) == m.kind \in {"no_amount", "bad_amount", "null_amount"}

\* except clauses: _handle_commitment_created line 119, _handle_message lines 87-89,
\* start_listening lines 64-66
CaughtInner == {"KeyError", "ValueError", "TypeError"}
CaughtOuter == {"JSONDecodeError", "KeyError", "ValueError", "TypeError"}
CaughtLoop == {"RedisError", "ConnectionError", "TimeoutError", "CancelledError"}

\* the exception that leaves _handle_message for message m, "none" when none does
Escapes(m) ==
    LET e == Raised(m) IN
    IF e = "none" THEN "none"
    ELSE IF RaisedInner(m) /\ e \in CaughtInner THEN "none"
    ELSE IF e \in CaughtOuter THEN "none"
    ELSE e

\* InvestorRepository.get_investor_by_id
Found(id) == id \in DOMAIN investors

\* _handle_commitment_created lines 105-106
new_count_stuck(inv) == IF inv.commitment_count = 0 THEN 1 ELSE inv.commitment_count
new_count(inv) == inv.commitment_count + 1
new_total_overwrite(inv, amount) == amount
new_total(inv, amount) == inv.total_commitment_amount + amount

\* _handle_commitment_created lines 100-103: warning, return; the loop goes on
OnNotFoundRaise(l) == [l EXCEPT !.pc = "crashed", !.running = FALSE]
OnNotFound(l) == [l EXCEPT !.pc = "polling"]

\* lifespan: where the lifespan of the service stands (up, or down: the shutdown
\* code after the yield has run to its end)
NewListener == [pc |-> "new", running |-> FALSE, ev |-> NoEvent,
                read |-> prepare_investor_for_db, lifespan |-> "up"]

\* EventSubscriber.connect, lines 23-35
SubscriberConnect ==
    /\ ~subscribed
    /\ listener.pc = "new"
    /\ subscribed' = TRUE
    /\ UNCHANGED << ingVars, csVars, channel, chanFault, chanHist, investors, listener,
                    missedInv, aggHist >>

\* start_listening lines 48-55: _running = True; without a pubsub the loop breaks at once
StartListening ==
    /\ listener.pc = "new"
    /\ listener' = IF subscribed
                   THEN [listener EXCEPT !.pc = "polling", !.running = TRUE]
                   ELSE [listener EXCEPT !.pc = "stopped", !.running = TRUE]
    /\ UNCHANGED << ingVars, csVars, channel, subscribed, chanFault, chanHist, investors,
                    missedInv, aggHist >>

\* start_listening lines 57-62: get_message is awaited again only when
\* _handle_message, awaited at line 60, has returned
AtPollOrWriting(l) == l.pc \in {"polling", "writing"}
AtPoll(l) == l.pc = "polling"

\* _handle_commitment_created lines 95-110 read investor_id and amount of the
\* event; commitment_id is not looked at, no event is skipped as already applied
AlreadyAppliedById(m) == m.commitment_id = delivered.last
AlreadyApplied(m) == FALSE

\* one turn of the loop (lines 57-60) on message m, up to the aggregate write:
\* _handle_message (71-90) and _handle_commitment_created up to line 106
ReceiveCore(m) ==
    /\ AtPoll(listener)
    /\ listener.running
    /\ BagIn(m, channel)
    /\ channel' = channel (-) SetToBag({m})
    /\ IF Escapes(m) # "none"
       THEN \* not caught by start_listening either: the task ends with the exception
            /\ listener' = [listener EXCEPT !.pc = IF Escapes(m) \in CaughtLoop
                                                   THEN "stopped" ELSE "crashed"]
            /\ UNCHANGED missedInv
       ELSE IF Raised(m) # "none" \/ m.investor_id = "" \/ m.event_type # "commitment_created"
       THEN \* logged and dropped
            /\ UNCHANGED << listener, missedInv >>
       ELSE IF AlreadyApplied(m)
       THEN /\ UNCHANGED << listener, missedInv >>
       ELSE IF ~Found(m.investor_id)
       THEN /\ listener' = OnNotFound(listener)
            /\ missedInv' = TRUE
       ELSE /\ listener' = [listener EXCEPT !.pc = "writing", !.ev = m,
                                            !.read = investors[m.investor_id]]
            /\ UNCHANGED missedInv
    /\ UNCHANGED << ingVars, csVars, subscribed, chanFault, chanHist, investors >>

Receive(m) == ReceiveCore(m) /\ UNCHANGED aggHist

\* InvestorRepository.update_commitment_metrics, lines 342-351: one update_one
\* whose $set carries both fields
update_commitment_count_only(doc, commitment_count, total_amount) ==
    [doc EXCEPT !.commitment_count = commitment_count]
update_commitment_metrics(doc, commitment_count, total_amount) ==
    [commitment_count |-> commitment_count, total_commitment_amount |-> total_amount]

\* _handle_commitment_created lines 105-110: the new values are computed from
\* the investor read and written by update_commitment_metrics
WriteCore ==
    /\ listener.pc = "writing"
    /\ LET id == listener.ev.investor_id IN
       investors' = [investors EXCEPT ![id] =
                        update_commitment_metrics(@, new_count(listener.read),
                            new_total(listener.read, listener.ev.amount))]
    /\ listener' = [listener EXCEPT !.pc = "polling", !.ev = NoEvent,
                                    !.read = prepare_investor_for_db]
    /\ UNCHANGED << ingVars, csVars, channel, subscribed, chanFault, chanHist, missedInv >>

Write == WriteCore /\ UNCHANGED aggHist

\* get_message raises redis.RedisError: caught at line 64, the loop ends
PollRedisError ==
    /\ listener.pc = "polling"
    /\ listener' = [listener EXCEPT !.pc = "stopped"]
    /\ UNCHANGED << ingVars, csVars, channel, subscribed, chanFault, chanHist, investors,
                    missedInv, aggHist >>

\* main.py lines 41-44, the shutdown code of the lifespan: event_task.cancel()
\* (the task gets CancelledError at the await it is suspended in, caught at line
\* 66 of the subscriber) and close_mongodb_connection(); nothing else is called
Cancel ==
    /\ listener.lifespan = "up"
    /\ listener.pc \in {"polling", "writing"}
    /\ listener' = [listener EXCEPT !.pc = "stopped", !.lifespan = "down"]
    /\ UNCHANGED << ingVars, csVars, channel, subscribed, chanFault, chanHist, investors,
                    missedInv, aggHist >>

\* EventSubscriber.disconnect, lines 37-44: _running = False, unsubscribe, close.
\* Nothing in the service calls it (the lifespan does not): it is part of no
\* next-state relation.
Disconnect ==
    /\ subscribed
    /\ subscribed' = FALSE
    /\ listener' = [listener EXCEPT !.running = FALSE]
    /\ UNCHANGED << ingVars, csVars, channel, chanFault, chanHist, investors,
                    missedInv, aggHist >>

----------------------------------------------------------------------------
\* ingestion-service (CSVParser, AssetClassManager, InvestorManager,
\* CommitmentManager, DataProcessor) and the list / create endpoints it calls.
\* A document of a store is identified by <<name, k>>: the k-th document
\* created with that name (the stand-in of its uuid4 id).

MaxRows == 2        \* rows of the input DataFrame
MaxRuns == 2        \* sequential runs of process_dataframe over the same batch
MaxFaults == 2      \* remote calls that fail (non-2xx, transport error, empty answer)
MaxDirect == 1      \* commitments another client creates while a run is under way

PageSize == 100
InvNames == 1..2    \* investor names, numbered in the order the listing sorts them
AcNames == {"PE", "RE"}
RowAmounts == {0, 100}
FillerCounts == {0, PageSize}
Kinds == {"ac", "inv"}

Rows == [inv : InvNames, ac : AcNames, amt : RowAmounts, cur : {GBP}]
Dataframes ==
    {[cols |-> c, rows |-> r] :
        c \in BOOLEAN, r \in UNION {[1..n -> Rows] : n \in 0..MaxRows}}

NoMap == << >>      \* the empty dict
Size(f) == Cardinality(DOMAIN f)
DictGet(d, key, default) == IF key \in DOMAIN d THEN d[key] ELSE default
Range(s) == {s[i] : i \in DOMAIN s}
BagOfSeq(s) == [x \in Range(s) |-> Cardinality({i \in DOMAIN s : s[i] = x})]

\* ---- CSVParser

validate_csv_structure_lenient(d) == TRUE
validate_csv_structure(d) == d.cols

\* keys of a dict filled in row order: first occurrence of each name
RECURSIVE OrderedUnique(_)
OrderedUnique(s) ==
    IF s = << >> THEN << >>
    ELSE LET r == OrderedUnique(SubSeq(s, 1, Len(s) - 1))
             x == s[Len(s)]
         IN IF x \in Range(r) THEN r ELSE Append(r, x)

\* lines 61-62: amount = float(row['Commitment Amount']); if amount > 0
AnyAmount(row) == TRUE
PositiveAmount(row) == row.amt > 0

parse_csv_data(rows) ==
    [investors     |-> OrderedUnique([i \in DOMAIN rows |-> rows[i].inv]),
     asset_classes |-> OrderedUnique([i \in DOMAIN rows |-> rows[i].ac]),
     commitments   |-> SelectSeq(rows, PositiveAmount)]

\* ---- investor-service: GET /api/investors/?page=&size=

RECURSIVE DocsUpTo(_)
DocsUpTo(n) == IF n = 0 THEN 0 ELSE invStore[n] + DocsUpTo(n - 1)

\* position of document <<n, k>> in the listing sorted by name ascending
Rank(n, k) == fillers + DocsUpTo(n - 1) + k
TotalCount == fillers + DocsUpTo(Cardinality(InvNames))

Docs(store, names) == UNION {{<<n, k>> : k \in 1..store[n]} : n \in names}

\* InvestorRepository.get_all_investors; of the documents of the page only
\* those bearing a name of InvNames are kept (no batch asks for the others)
get_all_investors(skip, limit) ==
    [investors   |-> {d \in Docs(invStore, InvNames) :
                         /\ skip < Rank(d[1], d[2])
                         /\ Rank(d[1], d[2]) <= skip + limit},
     total       |-> TotalCount,
     page        |-> (skip \div limit) + 1,
     size        |-> limit,
     total_pages |-> (TotalCount + limit - 1) \div limit,
     has_next    |-> skip + limit < TotalCount,
     has_prev    |-> skip > 0]

\* the response model keeps the fields it declares and drops the others
InvestorListFields == {"investors", "total", "page", "size", "total_pages"}
InvestorListResponse(result) == [f \in InvestorListFields |-> result[f]]
get_investors(page, size) ==
    InvestorListResponse(get_all_investors((page - 1) * size, size))

\* ---- asset-class-service: GET /api/asset-classes/ (newest first, unpaginated)
list_asset_classes == Docs(acStore, AcNames)

\* ---- name -> id mapping read off a listing; a later document of the
\* iteration overwrites an earlier one of the same name
InvNameToId(docs, names) ==
    [n \in {m \in Range(names) : \E d \in docs : d[1] = m} |->
        CHOOSE d \in docs : d[1] = n /\ \A e \in docs : e[1] = n => e[2] <= d[2]]

AcNameToId(docs, names) ==
    [n \in {m \in Range(names) : \E d \in docs : d[1] = m} |->
        CHOOSE d \in docs : d[1] = n /\ \A e \in docs : e[1] = n => e[2] >= d[2]]

\* ---- DataProcessor.process_dataframe

NoResult == [status |-> "none", error |-> "", asset_classes_created |-> 0,
             investors_created |-> 0, commitments_created |-> 0]

NoFb == [used |-> FALSE, names |-> << >>, calls |-> NoMap, ok |-> {},
         mapping |-> NoMap]

\* the names the bulk create of a kind was asked and the list it answered with
\* 200, kept when the list was shorter than the request
NoBulk == [answered |-> FALSE, names |-> << >>, items |-> << >>]

NewRun(n) ==
    [stage |-> "start", kind |-> "none", n |-> n,
     names |-> [ac |-> << >>, inv |-> << >>], commitments |-> << >>,
     map |-> [ac |-> NoMap, inv |-> NoMap],
     name_order |-> << >>, results |-> NoMap, page |-> 1, acc |-> {},
     valid |-> 0, request |-> << >>, result |-> NoResult,
     \* history of the run
     calls |-> [ac |-> 0, inv |-> 0, cm |-> 0],
     creates |-> [ac |-> 0, inv |-> 0],
     faults |-> 0,
     fb |-> [ac |-> NoFb, inv |-> NoFb],
     bk |-> [ac |-> NoBulk, inv |-> NoBulk],
     \* requests another client had the commitment service create during the run
     direct |-> << >>]

NoPrev == [n |-> 0, map |-> [ac |-> NoMap, inv |-> NoMap], faults |-> 0,
           stored |-> 0, status |-> "none"]

error_result_bare(msg, ac, inv) == [status |-> "failed", error |-> msg]
error_result(msg, ac, inv) ==
    [status |-> "failed", error |-> msg, asset_classes_created |-> ac,
     investors_created |-> inv, commitments_created |-> 0]

Done(r, res) == [r EXCEPT !.stage = "done", !.kind = "none", !.result = res]

Report(r, count) ==
    Done(r, [status |-> "completed", error |-> "",
             asset_classes_created |-> Size(r.map.ac),
             investors_created |-> Size(r.map.inv),
             commitments_created |-> count])

Resolvable(c, im, am) == c.inv \in DOMAIN im /\ c.ac \in DOMAIN am

count_valid_commitments(cs, im, am) ==
    Cardinality({i \in DOMAIN cs : Resolvable(cs[i], im, am)})

NoValidNever(v) == FALSE
NoValid(v) == v = 0

\* len(mapping) == 0 and len(names) > 0: the resolver returned no id at all
NoneResolvedNever(mapping, names) == FALSE
NoneResolved(mapping, names) == Size(mapping) = 0 /\ Len(names) > 0

\* process_dataframe from the return of bulk_create_investors on
AfterInvestors(r) ==
    IF NoneResolved(r.map.inv, r.names.inv)
    THEN Done(r, error_result("Failed to create investors", Size(r.map.ac), 0))
    ELSE LET v == count_valid_commitments(r.commitments, r.map.inv, r.map.ac)
         IN IF NoValid(v)
            THEN Done(r, error_result("No valid commitments: missing dependencies",
                                      Size(r.map.ac), Size(r.map.inv)))
            ELSE [r EXCEPT !.stage = "cm_fetch", !.kind = "none", !.valid = v]

\* InvestorManager.bulk_create_investors: no call for an empty dict
StartInvestorsAlways(r) == [r EXCEPT !.stage = "fetch", !.kind = "inv", !.page = 1, !.acc = {}]
StartInvestors(r) ==
    IF r.names.inv = << >> THEN AfterInvestors(r)
    ELSE [r EXCEPT !.stage = "fetch", !.kind = "inv", !.page = 1, !.acc = {}]

\* process_dataframe from the return of bulk_create_asset_classes on
AfterAssetClasses(r) ==
    IF NoneResolved(r.map.ac, r.names.ac)
    THEN Done(r, error_result("Failed to create asset classes", 0, 0))
    ELSE StartInvestors(r)

\* AssetClassManager.bulk_create_asset_classes: no call for an empty dict;
\* process_dataframe awaits it first (line 57), the investors after it (line 62)
StartInvestorsFirst(r) == StartInvestors(r)
StartAssetClasses(r) ==
    IF r.names.ac = << >> THEN AfterAssetClasses(r)
    ELSE [r EXCEPT !.stage = "fetch", !.kind = "ac"]

After(kind, r) == IF kind = "ac" THEN AfterAssetClasses(r) ELSE AfterInvestors(r)

\* ---- the resolvers (AssetClassManager, InvestorManager)

svcVars == << committed, pending, nextId, req, redisConn, publishedIds, dupPublish,
              rolledBack, pubFailed, channel, subscribed, chanFault, injected, dups,
              investors, listener, missedInv, agg0, sent, delivered >>

Store(kind) == IF kind = "ac" THEN acStore ELSE invStore

SetStore(kind, new) ==
    IF kind = "ac" THEN acStore' = new /\ invStore' = invStore
                   ELSE invStore' = new /\ acStore' = acStore

\* what a remote call can end with: the answer the code expects, another status,
\* a transport error, or the expected status with a body that cannot be read
ListOutcomes == {"ok", "non200", "error", "malformed"}
AcListOutcomes == {"ok", "fail"}
BulkOutcomes == {"created", "empty", "non200", "error", "malformed"}
\* a 200 whose list lacks the last or the first of the created documents
ShortOutcomes == {"short", "shifted"}
SingleOutcomes == {"created", "non201", "error", "malformed"}
CmListOutcomes == {"ok", "non200", "error"}
CmBulkOutcomes == {"ok", "non200", "error", "malformed"}

\* one remote call to a service, and whether it went well
Call(r, svc, ok) ==
    [r EXCEPT !.calls[svc] = @ + 1, !.faults = IF ok THEN @ ELSE @ + 1]

\* a call may fail while the run has failures left
MayEnd(ok) == ok \/ run.faults < MaxFaults

\* bulk_create_*: names the snapshot lacks go to the bulk create
FinishFetch(kind, r, found) ==
    LET names == r.names[kind]
        new == SelectSeq(names, LAMBDA n : n \notin DOMAIN found)
        r2 == [r EXCEPT !.map[kind] = found, !.page = 1, !.acc = {}]
    IN IF new # << >>
       THEN [r2 EXCEPT !.stage = "bulk", !.name_order = new]
       ELSE After(kind, r2)

fetch_existing_asset_classes(out, names) ==
    IF out = "ok" THEN AcNameToId(list_asset_classes, names) ELSE NoMap

AcFetch(out) ==
    /\ run.stage = "fetch" /\ run.kind = "ac"
    /\ MayEnd(out = "ok")
    /\ run' = FinishFetch("ac", Call(run, "ac", out = "ok"),
                          fetch_existing_asset_classes(out, run.names.ac))
    /\ UNCHANGED << svcVars, df, fillers, invStore, acStore, cmStore, prev >>

\* one turn of the while loop of _fetch_existing_investors; data is the body
\* of the page when the answer is 200
InvFetchPageOf(data, out) ==
    /\ run.stage = "fetch" /\ run.kind = "inv"
    /\ MayEnd(out = "ok")
    /\ LET r == Call(run, "inv", out = "ok")
           names == run.names.inv
       IN CASE out = "ok" ->
                 LET acc2 == run.acc \cup DictGet(data, "investors", {})
                 IN run' = IF DictGet(data, "has_next", FALSE)
                           THEN [r EXCEPT !.page = @ + 1, !.acc = acc2]
                           ELSE FinishFetch("inv", r, InvNameToId(acc2, names))
            [] out = "non200" ->
                 run' = FinishFetch("inv", r, InvNameToId(run.acc, names))
            [] out \in {"error", "malformed"} ->
                 \* the get or response.json() raises: except Exception, line 139
                 run' = FinishFetch("inv", r, NoMap)
    /\ UNCHANGED << svcVars, df, fillers, invStore, acStore, cmStore, prev >>

\* the listing is served by the investor service (GET /api/investors/)
InvFetchPage(out) == InvFetchPageOf(get_investors(run.page, PageSize), out)

\* the listing is served with the pagination metadata the loop reads: the page
\* as InvestorRepository.get_all_investors returns it, has_next included
InvFetchPageHasNext(out) ==
    InvFetchPageOf(get_all_investors((run.page - 1) * PageSize, PageSize), out)

Min(a, b) == IF a <= b THEN a ELSE b

\* the i-th returned item gives the id of the i-th requested name
ZipByName(name_order, items) ==
    [n \in {items[i][1] : i \in DOMAIN items} |->
        items[CHOOSE i \in DOMAIN items : items[i][1] = n]]
Zip(name_order, items) ==
    [n \in {name_order[i] : i \in 1..Min(Len(name_order), Len(items))} |->
        items[CHOOSE i \in DOMAIN name_order : name_order[i] = n]]

BulkCreate(kind, out) ==
    /\ run.stage = "bulk" /\ run.kind = kind
    /\ MayEnd(out = "created")
    /\ LET names == run.name_order
           store == Store(kind)
           r == [Call(run, kind, out = "created") EXCEPT !.creates[kind] = @ + 1,
                                                         !.name_order = << >>]
       IN CASE out \in {"created", "short", "shifted"} ->
                 \* insert_many stores every document; the answer lists all of
                 \* them, or all but the last, or all but the first
                 LET made == [i \in DOMAIN names |-> <<names[i], store[names[i]] + 1>>]
                     items == CASE out = "created" -> made
                                [] out = "short"   -> SubSeq(made, 1, Len(made) - 1)
                                [] out = "shifted" -> Tail(made)
                 IN /\ out # "created" => Len(names) >= 2
                    /\ SetStore(kind, [n \in DOMAIN store |->
                                IF n \in Range(names) THEN store[n] + 1 ELSE store[n]])
                    /\ run' = After(kind, [r EXCEPT
                                  !.map[kind] = Zip(names, items) @@ @,
                                  !.bk[kind] = IF out = "created" THEN NoBulk
                                               ELSE [answered |-> TRUE, names |-> names,
                                                     items |-> items]])
            [] out = "empty" ->
                 /\ SetStore(kind, store)
                 /\ run' = After(kind, [r EXCEPT
                               !.map[kind] = Zip(names, << >>) @@ @,
                               !.bk[kind] = [answered |-> TRUE, names |-> names,
                                             items |-> << >>]])
            [] out \in {"non200", "error", "malformed"} ->
                 \* malformed: the service created the entities and answered 200
                 \* with a body response.json() cannot read; except Exception
                 /\ SetStore(kind, IF out = "malformed"
                                   THEN [n \in DOMAIN store |->
                                           IF n \in Range(names) THEN store[n] + 1
                                           ELSE store[n]]
                                   ELSE store)
                 /\ run' = [r EXCEPT !.stage = "fallback", !.name_order = names,
                                     !.results = NoMap,
                                     !.fb[kind] = [NoFb EXCEPT !.names = names,
                                         !.calls = [n \in Range(names) |-> 0]]]
    /\ UNCHANGED << svcVars, df, fillers, cmStore, prev >>

AcBulkCreate(out) == BulkCreate("ac", out)
InvBulkCreate(out) == BulkCreate("inv", out)

\* the loop over the gathered results: a failed call is skipped
gather_all_or_nothing(results) ==
    IF \E n \in DOMAIN results : results[n] = << >> THEN NoMap
    ELSE [n \in DOMAIN results |-> results[n][1]]
gather_results(results) ==
    [n \in {m \in DOMAIN results : results[m] # << >>} |-> results[n][1]]

\* asyncio.gather(*tasks, return_exceptions=True): the await returns when every
\* task is done, whatever each of them ended with
gather_returns_on_failure(results, names) ==
    \/ DOMAIN results = Range(names)
    \/ \E n \in DOMAIN results : results[n] = << >>
gather_returns(results, names) == DOMAIN results = Range(names)

\* one task of the fallback finishes; the last one lets gather return
SingleCreate(kind, name, out) ==
    /\ run.stage = "fallback" /\ run.kind = kind
    /\ name \in Range(run.name_order) \ DOMAIN run.results
    /\ MayEnd(out = "created")
    /\ LET store == Store(kind)
           conflict == kind = "ac" /\ store[name] > 0
           \* malformed: the entity is created, the 201 body cannot be read
           made == out \in {"created", "malformed"} /\ ~conflict
           got == out = "created" /\ ~conflict
           res == IF got THEN << <<name, store[name] + 1>> >> ELSE << >>
           results2 == (name :> res) @@ run.results
           r == [Call(run, kind, out = "created") EXCEPT
                    !.creates[kind] = @ + 1,
                    !.results = results2,
                    !.fb[kind].calls[name] = @ + 1,
                    !.fb[kind].ok = IF got THEN @ \cup {name} ELSE @]
       IN /\ SetStore(kind, IF made THEN [store EXCEPT ![name] = @ + 1] ELSE store)
          /\ run' = IF gather_returns(results2, run.name_order)
                    THEN LET m == gather_results(results2)
                         IN After(kind, [r EXCEPT !.map[kind] = m @@ @,
                                                  !.results = NoMap,
                                                  !.name_order = << >>,
                                                  !.fb[kind].used = TRUE,
                                                  !.fb[kind].mapping = m])
                    ELSE r
    /\ UNCHANGED << svcVars, df, fillers, cmStore, prev >>

AcSingleCreate(name, out) == SingleCreate("ac", name, out)
InvSingleCreate(name, out) == SingleCreate("inv", name, out)

\* ---- CommitmentManager

CommitmentCreateRequest(c, im, am) ==
    [investor_id |-> im[c.inv], asset_class_id |-> am[c.ac],
     amount |-> c.amt, currency |-> c.cur]

unique_commitment_key(q) == <<q.investor_id, q.asset_class_id, q.amount, q.currency>>

\* the while loop leaves at the first answer: on 200 by the break that
\* precedes the reading of the page, on another status by the break after
\* the warning; existing_keys is still the empty set it started as
fetch_existing_commitments(out) ==
    LET existing_keys == {}
    IN IF out = "ok" THEN existing_keys ELSE existing_keys

\* lines 84-106: the loop over the candidates tests each key against
\* existing_commitments and never adds to it
bulk_commitments_extending(cs, im, am, existing) ==
    LET Key(i) == unique_commitment_key(CommitmentCreateRequest(cs[i], im, am))
        First(i) == /\ Resolvable(cs[i], im, am)
                    /\ Key(i) \notin existing
                    /\ \A j \in 1..(i - 1) :
                          ~(Resolvable(cs[j], im, am) /\ Key(j) = Key(i))
        kept == SelectSeq([i \in DOMAIN cs |-> i], First)
    IN [k \in DOMAIN kept |-> CommitmentCreateRequest(cs[kept[k]], im, am)]
bulk_commitments(cs, im, am, existing) ==
    LET Keep(c) == /\ Resolvable(c, im, am)
                   /\ unique_commitment_key(CommitmentCreateRequest(c, im, am))
                          \notin existing
        kept == SelectSeq(cs, Keep)
    IN [i \in DOMAIN kept |-> CommitmentCreateRequest(kept[i], im, am)]

CmFetch(out) ==
    /\ run.stage = "cm_fetch"
    /\ MayEnd(out = "ok")
    /\ IF out = "error"
       THEN run' = Call(run, "cm", FALSE)
       ELSE LET q == bulk_commitments(run.commitments, run.map.inv, run.map.ac,
                                      fetch_existing_commitments(out))
                r == [Call(run, "cm", out = "ok") EXCEPT !.request = q]
            IN run' = IF q = << >> THEN Report(r, 0)
                      ELSE [r EXCEPT !.stage = "cm_bulk"]
    /\ UNCHANGED << svcVars, df, fillers, invStore, acStore, cmStore, prev >>

\* commitment-service: the table commitments has no unique index on
\* (investor_id, asset_class_id, amount, currency); executemany inserts every row
insert_commitments_unique(store, request) ==
    LET keys == [i \in DOMAIN request |-> unique_commitment_key(request[i])]
    IN IF \/ \E k \in Range(keys) : BagIn(k, store)
          \/ Cardinality(Range(keys)) < Len(keys)
       THEN store
       ELSE store (+) BagOfSeq(keys)
insert_commitments(store, request) ==
    store (+) BagOfSeq([i \in DOMAIN request |-> unique_commitment_key(request[i])])

CmBulkCreate(out) ==
    /\ run.stage = "cm_bulk"
    /\ MayEnd(out = "ok")
    /\ CASE out = "ok" ->
              /\ cmStore' = insert_commitments(cmStore, run.request)
              /\ run' = Report(Call(run, "cm", TRUE), Len(run.request))
         [] out = "malformed" ->
              \* the service stored the records, response.json() raises: return 0
              /\ cmStore' = insert_commitments(cmStore, run.request)
              /\ run' = Report(Call(run, "cm", FALSE), 0)
         [] out \in {"non200", "error"} ->
              /\ cmStore' = cmStore
              /\ run' = Report(Call(run, "cm", FALSE), 0)
    /\ UNCHANGED << svcVars, df, fillers, invStore, acStore, prev >>

\* _fetch_existing_commitments, lines 145-150, with the failures counted so far
\* at their bound: client.get raises once more, `except Exception: continue`
\* takes the loop back to its head (the counters of the run stay at their bound)
CmListRaises ==
    /\ run.stage = "cm_fetch"
    /\ run.faults >= MaxFaults
    /\ run' = [run EXCEPT !.stage = "cm_retry"]
    /\ UNCHANGED << svcVars, df, fillers, invStore, acStore, cmStore, prev >>

\* lines 140-146: the loop turns with the same page and issues the get again
CmListAgain ==
    /\ run.stage = "cm_retry"
    /\ run' = [run EXCEPT !.stage = "cm_fetch"]
    /\ UNCHANGED << svcVars, df, fillers, invStore, acStore, cmStore, prev >>

\* POST /api/commitments/ by another client (routers/commitments.py,
\* create_commitment) for a commitment the run is about to create: it arrives
\* after the run has taken its snapshot and before its bulk create
DirectCreate(q) ==
    /\ run.stage = "cm_bulk"
    /\ Len(run.direct) < MaxDirect
    /\ q \in Range(run.request)
    /\ cmStore' = insert_commitments(cmStore, << q >>)
    /\ run' = [run EXCEPT !.direct = Append(@, q)]
    /\ UNCHANGED << svcVars, df, fillers, invStore, acStore, prev >>

Validate ==
    /\ run.stage = "start"
    /\ run' = IF ~validate_csv_structure(df)
              THEN Done(run, error_result("Invalid CSV structure", 0, 0))
              ELSE LET p == parse_csv_data(df.rows)
                   IN StartAssetClasses([run EXCEPT
                          !.names = [ac |-> p.asset_classes, inv |-> p.investors],
                          !.commitments = p.commitments])
    /\ UNCHANGED << svcVars, df, fillers, invStore, acStore, cmStore, prev >>

\* the same batch is ingested again once the run has returned
NextRun ==
    /\ run.stage = "done"
    /\ run.n < MaxRuns
    /\ prev' = [n |-> run.n, map |-> run.map, faults |-> run.faults,
                stored |-> BagCardinality(cmStore), status |-> run.result.status]
    /\ run' = [NewRun(run.n + 1) EXCEPT !.faults = run.faults]
    /\ UNCHANGED << svcVars, df, fillers, invStore, acStore, cmStore >>

IngestIdle ==
    /\ df = [cols |-> TRUE, rows |-> << >>]
    /\ fillers = 0
    /\ invStore = [n \in InvNames |-> 0]
    /\ acStore = [n \in AcNames |-> 0]
    /\ cmStore = EmptyBag
    /\ run = NewRun(1)
    /\ prev = NoPrev

----------------------------------------------------------------------------
\* The pipeline: commitment service, channel, aggregator

Payloads ==
    UNION {[1..n -> InvestorIds \X ReqAmounts] : n \in 1..MaxBatch}

InitServices ==
    /\ committed = {}
    /\ pending = {}
    /\ nextId = 1
    /\ req = [r \in Slots |-> IdleReq]
    /\ redisConn = FALSE
    /\ publishedIds = {}
    /\ dupPublish = FALSE
    /\ rolledBack = {}
    /\ pubFailed = {}
    /\ channel = EmptyBag
    /\ subscribed = FALSE
    /\ chanFault = FALSE
    /\ injected = 0
    /\ dups = 0
    /\ investors = << >>
    /\ listener = NewListener
    /\ missedInv = FALSE
    /\ agg0 = prepare_investor_for_db
    /\ sent = [n |-> 0, sum |-> 0]
    /\ delivered = [last |-> 0, reordered |-> FALSE]

Init == InitServices /\ IngestIdle

PipeSlots == {"r1"}

\* requests are served one at a time in the end-to-end pipeline
Next ==
    \/ \E r \in PipeSlots, inv \in InvestorIds, amt \in ReqAmounts : CreateInsert(r, inv, amt)
    \/ \E r \in PipeSlots, p \in Payloads : BulkInsert(r, p)
    \/ \E r \in PipeSlots : DbError(r)
    \/ \E r \in PipeSlots : Commit(r)
    \/ \E r \in PipeSlots : Fetch(r)
    \/ \E r \in PipeSlots : \E c \in req[r].left : PublishOk(r, c)
    \/ \E r \in PipeSlots : \E c \in req[r].left : PublishRedisError(r, c)
    \/ \E r \in PipeSlots : \E c \in req[r].left : PublishNoConnection(r, c)
    \/ PublisherConnect
    \/ \E i \in InvestorIds : CreateInvestor(i)
    \/ SubscriberConnect
    \/ StartListening
    \/ \E m \in BagToSet(channel) : Receive(m)
    \/ Write

Spec == Init /\ [][Next]_vars

----------------------------------------------------------------------------
\* The ingestion orchestrator alone, run over a batch and then over it again

InitIngest ==
    /\ InitServices
    /\ df \in Dataframes
    /\ fillers \in FillerCounts
    /\ invStore = [n \in InvNames |-> 0]
    /\ acStore = [n \in AcNames |-> 0]
    /\ cmStore = EmptyBag
    /\ run = NewRun(1)
    /\ prev = NoPrev

NextIngest ==
    \/ Validate
    \/ \E out \in AcListOutcomes : AcFetch(out)
    \/ \E out \in BulkOutcomes : AcBulkCreate(out)
    \/ \E name \in AcNames, out \in SingleOutcomes : AcSingleCreate(name, out)
    \/ \E out \in ListOutcomes : InvFetchPage(out)
    \/ \E out \in BulkOutcomes : InvBulkCreate(out)
    \/ \E name \in InvNames, out \in SingleOutcomes : InvSingleCreate(name, out)
    \/ \E out \in CmListOutcomes : CmFetch(out)
    \/ \E out \in CmBulkOutcomes : CmBulkCreate(out)
    \/ NextRun

SpecIngest == InitIngest /\ [][NextIngest]_vars

----------------------------------------------------------------------------
\* One run of process_dataframe against stores that already hold entities

\* names the stores may hold a document of before the run
InvSeeds == {{}, {1}}
AcSeeds == {{}, {"PE"}}

InitRun ==
    /\ InitServices
    /\ df \in Dataframes
    /\ fillers = 0
    /\ \E seed \in InvSeeds : invStore = [n \in InvNames |-> IF n \in seed THEN 1 ELSE 0]
    /\ \E seed \in AcSeeds : acStore = [n \in AcNames |-> IF n \in seed THEN 1 ELSE 0]
    /\ cmStore = EmptyBag
    /\ run = NewRun(1)
    /\ prev = NoPrev

NextOneRun ==
    \/ Validate
    \/ \E out \in AcListOutcomes : AcFetch(out)
    \/ \E out \in BulkOutcomes : AcBulkCreate(out)
    \/ \E name \in AcNames, out \in SingleOutcomes : AcSingleCreate(name, out)
    \/ \E out \in ListOutcomes : InvFetchPage(out)
    \/ \E out \in BulkOutcomes : InvBulkCreate(out)
    \/ \E name \in InvNames, out \in SingleOutcomes : InvSingleCreate(name, out)
    \/ \E out \in CmListOutcomes : CmFetch(out)
    \/ \E out \in CmBulkOutcomes : CmBulkCreate(out)

SpecRun == InitRun /\ [][NextOneRun]_vars

\* One run in which every remote call ends (with an answer or an error) and the
\* commitment listing may go on raising for as long as it likes
NextLive ==
    \/ NextOneRun
    \/ CmListRaises
    \/ CmListAgain

SpecLive == InitRun /\ [][NextLive]_vars /\ WF_vars(NextLive)

\* One run over a batch of one investor and one asset class whose amounts are
\* positive, zero or negative
SignedAmounts == {-100, 0, 100}
SignedRows == [inv : {1}, ac : {"PE"}, amt : SignedAmounts, cur : {GBP}]
SignedDataframes ==
    {[cols |-> c, rows |-> r] :
        c \in BOOLEAN, r \in UNION {[1..n -> SignedRows] : n \in 0..MaxRows}}

InitSigned ==
    /\ InitServices
    /\ df \in SignedDataframes
    /\ fillers = 0
    /\ invStore = [n \in InvNames |-> 0]
    /\ acStore = [n \in AcNames |-> 0]
    /\ cmStore = EmptyBag
    /\ run = NewRun(1)
    /\ prev = NoPrev

SpecSigned == InitSigned /\ [][NextOneRun]_vars

\* One run over empty stores in which a bulk create may also answer 200 with a
\* list shorter than the request
InitBulk ==
    /\ InitIngest
    /\ fillers = 0
    /\ validate_csv_structure(df)

NextBulk ==
    \/ Validate
    \/ \E out \in AcListOutcomes : AcFetch(out)
    \/ \E out \in BulkOutcomes \cup ShortOutcomes : AcBulkCreate(out)
    \/ \E name \in AcNames, out \in SingleOutcomes : AcSingleCreate(name, out)
    \/ \E out \in ListOutcomes : InvFetchPage(out)
    \/ \E out \in BulkOutcomes \cup ShortOutcomes : InvBulkCreate(out)
    \/ \E name \in InvNames, out \in SingleOutcomes : InvSingleCreate(name, out)
    \/ \E out \in CmListOutcomes : CmFetch(out)
    \/ \E out \in CmBulkOutcomes : CmBulkCreate(out)

SpecBulk == InitBulk /\ [][NextBulk]_vars

\* One run whose investor listing carries has_next, over an investor store of
\* one page or of two
PagedFillers == {0, PageSize - 1}
InvSeedsPaged == {{}, {1, 2}}

InitPaged ==
    /\ InitServices
    /\ df \in Dataframes
    /\ fillers \in PagedFillers
    /\ \E seed \in InvSeedsPaged : invStore = [n \in InvNames |-> IF n \in seed THEN 1 ELSE 0]
    /\ acStore = [n \in AcNames |-> 0]
    /\ cmStore = EmptyBag
    /\ run = NewRun(1)
    /\ prev = NoPrev

NextPaged ==
    \/ Validate
    \/ \E out \in AcListOutcomes : AcFetch(out)
    \/ \E out \in BulkOutcomes : AcBulkCreate(out)
    \/ \E name \in AcNames, out \in SingleOutcomes : AcSingleCreate(name, out)
    \/ \E out \in ListOutcomes : InvFetchPageHasNext(out)
    \/ \E out \in BulkOutcomes : InvBulkCreate(out)
    \/ \E name \in InvNames, out \in SingleOutcomes : InvSingleCreate(name, out)
    \/ \E out \in CmListOutcomes : CmFetch(out)
    \/ \E out \in CmBulkOutcomes : CmBulkCreate(out)

SpecPaged == InitPaged /\ [][NextPaged]_vars

\* One run over empty stores while another client creates commitments directly
NextRace ==
    \/ NextOneRun
    \/ \E q \in Range(run.request) : DirectCreate(q)

InitRace == InitIngest /\ fillers = 0

SpecRace == InitRace /\ [][NextRace]_vars

----------------------------------------------------------------------------
\* The commitment service alone: concurrent requests on the shared connection,
\* every statement on the connection free to raise

\* the amount takes no part in the control flow of the service: one value
CsAmounts == {OtherAmount}
CsPayloads ==
    UNION {[1..n -> InvestorIds \X CsAmounts] : n \in 1..MaxBatch}

NextCS ==
    \/ \E r \in Slots, inv \in InvestorIds, amt \in CsAmounts : CreateInsert(r, inv, amt)
    \/ \E r \in Slots, p \in CsPayloads : BulkInsert(r, p)
    \/ \E r \in Slots : DbError(r)
    \/ \E r \in Slots : Commit(r)
    \/ \E r \in Slots : Fetch(r)
    \/ \E r \in Slots : FetchError(r)
    \/ \E r \in Slots : \E c \in req[r].left : PublishOk(r, c)
    \/ \E r \in Slots : \E c \in req[r].left : PublishRedisError(r, c)
    \/ \E r \in Slots : \E c \in req[r].left : PublishNoConnection(r, c)
    \/ PublisherConnect
    \/ SubscriberConnect

SpecCS == Init /\ [][NextCS]_vars

----------------------------------------------------------------------------
\* The aggregator alone: the investor service after startup (lifespan has connected the
\* subscriber and started the listener task), fed by publishers on the channel

\* aggregates investor InvX can have when the listener starts
InitAggs == {[commitment_count |-> 0, total_commitment_amount |-> 0],
             [commitment_count |-> 2, total_commitment_amount |-> 300]}

InitAgg ==
    /\ committed = {}
    /\ pending = {}
    /\ nextId = 1
    /\ req = [r \in Slots |-> IdleReq]
    /\ redisConn = TRUE
    /\ publishedIds = {}
    /\ dupPublish = FALSE
    /\ rolledBack = {}
    /\ pubFailed = {}
    /\ channel = EmptyBag
    /\ subscribed = TRUE
    /\ chanFault = FALSE
    /\ injected = 0
    /\ dups = 0
    /\ agg0 \in InitAggs
    /\ investors = [i \in {InvX} |-> agg0]
    /\ listener = [NewListener EXCEPT !.pc = "polling", !.running = TRUE]
    /\ missedInv = FALSE
    /\ sent = [n |-> 0, sum |-> 0]
    /\ delivered = [last |-> 0, reordered |-> FALSE]
    /\ IngestIdle

\* a publisher puts a well-formed commitment_created event on the channel
PublishEvent(inv, amt) ==
    /\ ChannelInputs < MaxEvents
    /\ nextId' = nextId + 1
    /\ channel' = channel (+) SetToBag({CommitmentCreatedEvent(
                        prepare_commitment_for_db(inv, amt, nextId))})
    /\ sent' = IF inv = InvX THEN [n |-> sent.n + 1, sum |-> sent.sum + amt] ELSE sent
    /\ UNCHANGED << ingVars, committed, pending, req, redisConn, publishedIds, dupPublish,
                    rolledBack, pubFailed, subscribed, chanFault, chanHist, investors,
                    listener, missedInv, agg0, delivered >>

AggReceive(m) == ReceiveCore(m) /\ UNCHANGED aggHist

AggWrite ==
    /\ WriteCore
    /\ delivered' = IF listener.ev.investor_id = InvX
                    THEN [last |-> listener.ev.commitment_id,
                          reordered |-> delivered.reordered
                                        \/ listener.ev.commitment_id < delivered.last]
                    ELSE delivered
    /\ UNCHANGED << agg0, sent >>

NextAgg ==
    \/ \E amt \in Amounts : PublishEvent(InvX, amt)
    \/ \E inv \in InvestorIds \ {InvX} : PublishEvent(inv, OtherAmount)
    \/ \E k \in MalformedKinds : InjectMalformed(k, InvX)
    \/ \E m \in BagToSet(channel) : Duplicate(m)
    \/ \E i \in InvestorIds : CreateInvestor(i)
    \/ \E m \in BagToSet(channel) : AggReceive(m)
    \/ AggWrite
    \/ PollRedisError
    \/ Cancel

SpecAgg == InitAgg /\ [][NextAgg]_vars

----------------------------------------------------------------------------
\* Properties

RecordsOf(i) == {c \in committed : c.investor_id = i}

\* nothing is in flight: no request is running, the channel is empty and the listener
\* is back at its poll
Drained ==
    /\ \A r \in Slots : req[r].pc \in {"idle", "done"}
    /\ pending = {}
    /\ channel = EmptyBag
    /\ listener.pc = "polling"

\* every publish succeeded, no message was lost or duplicated, and no event was
\* dropped because its investor was missing
CleanRun == pubFailed = {} /\ ~chanFault /\ ~missedInv

C2_OrderIndependent ==
    ( /\ listener.pc = "polling"
      /\ dups = 0
      /\ \A m \in BagToSet(channel) : ~(m.kind = "event" /\ m.investor_id = InvX) )
    => investors[InvX] =
          [commitment_count |-> agg0.commitment_count + sent.n,
           total_commitment_amount |-> agg0.total_commitment_amount + sent.sum]

\* amounts 100, 250, 50 from a zero aggregate, applied out of publication order
C2_Witness ==
    /\ listener.pc = "polling"
    /\ channel = EmptyBag
    /\ agg0.commitment_count = 0
    /\ sent = [n |-> 3, sum |-> 400]
    /\ delivered.reordered
    /\ investors[InvX] = [commitment_count |-> 3, total_commitment_amount |-> 400]

\* the candidates of the run whose investor and asset class both resolved,
\* as create requests, in batch order
ResolvedRequests(r) ==
    LET Both(c) == Resolvable(c, r.map.inv, r.map.ac)
        both == SelectSeq(r.commitments, Both)
    IN [i \in DOMAIN both |-> CommitmentCreateRequest(both[i], r.map.inv, r.map.ac)]

\* the resolver of the kind has returned in run r
AcResolved(r) ==
    \/ r.kind = "inv"
    \/ r.stage \in {"cm_fetch", "cm_bulk"}
    \/ r.stage = "done" /\ r.result.error # "Invalid CSV structure"
InvResolved(r) ==
    \/ r.stage \in {"cm_fetch", "cm_bulk"}
    \/ /\ r.stage = "done"
       /\ r.result.error \notin {"Invalid CSV structure", "Failed to create asset classes"}

NotStored(q) == ~BagIn(unique_commitment_key(q), cmStore)

\* C3: with no concurrent writer the bulk-create request of
\* CommitmentManager.bulk_create_commitments holds exactly the candidates with
\* both dependencies resolved whose key investor_id:asset_class_id:amount:currency
\* is the key of no record of the commitment store, so that a second run over the
\* same batch leaves the store with as many records as the first run left it.
C3_DedupAgainstStore ==
    /\ run.stage = "cm_bulk"
       => run.request = SelectSeq(ResolvedRequests(run), NotStored)
    /\ (run.n > 1 /\ run.stage = "done" /\ run.faults = 0)
       => BagCardinality(cmStore) = prev.stored

\* C4: a second run of the entity resolver with the same names, no concurrent
\* writer and every call answered well returns the mapping of the first run and
\* issues no create call (bulk or individual), however many entities the store
\* holds.
C4_ResolverIdempotent ==
    (run.n > 1 /\ run.faults = 0)
    => /\ AcResolved(run) => (run.map.ac = prev.map.ac /\ run.creates.ac = 0)
       /\ InvResolved(run) => (run.map.inv = prev.map.inv /\ run.creates.inv = 0)

\* C5: when the bulk create fails (non-2xx or transport error) the fallback
\* issues exactly one individual create per name, and the mapping it returns
\* holds exactly the names whose own call succeeded with an id, whatever
\* happened to the other calls.
C5_FallbackCreatesEach ==
    \A kind \in Kinds :
        LET f == run.fb[kind]
        IN /\ \A n \in DOMAIN f.calls : f.calls[n] <= 1
           /\ f.used
              => /\ \A n \in Range(f.names) : f.calls[n] = 1
                 /\ DOMAIN f.mapping = f.ok
                 /\ \A n \in f.ok : /\ f.mapping[n][1] = n
                                    /\ n \in DOMAIN run.map[kind]
                                    /\ run.map[kind][n] = f.mapping[n]

\* two names went to the fallback, one call succeeded and one failed
C5_Witness ==
    \E kind \in Kinds :
        /\ run.fb[kind].used
        /\ Len(run.fb[kind].names) = 2
        /\ Cardinality(run.fb[kind].ok) = 1

\* the investor resolver returned ids for some of the names, not for all
SomeInvestorsResolved(r) ==
    /\ InvResolved(r)
    /\ 0 < Size(r.map.inv)
    /\ Size(r.map.inv) < Len(r.names.inv)

C7_PublishFailureSwallowed ==
    \A r \in Slots :
        ( /\ req[r].kind = "single" /\ req[r].pc = "done" /\ req[r].didCommit
          /\ req[r].tried # {} )
        => (req[r].result = "created" /\ req[r].rows \subseteq committed)

\* the listener takes message m off the channel in this step
Takes(m) ==
    /\ listener.pc = "polling"
    /\ listener.running
    /\ BagIn(m, channel)
    /\ channel' = channel (-) SetToBag({m})

\* C8: handling a well-formed commitment_created event whose investor is not in the
\* store raises nothing, writes no aggregate, and leaves the listener at its poll,
\* running, ready for the next message.
C8_UnknownInvestorDropped ==
    [][ \A m \in BagToSet(channel) :
          (Takes(m) /\ m.kind = "event" /\ m.investor_id \notin DOMAIN investors)
          => (investors' = investors /\ listener'.pc = "polling" /\ listener'.running)
      ]_vars

\* an event is being applied after an earlier one was dropped for a missing investor
C8_Witness == missedInv /\ listener.pc = "writing"

\* C9: every malformed message is dropped without an aggregate change, nothing leaves
\* _handle_message, and the listener stays at its poll, running.
C9_MalformedDropped ==
    [][ \A m \in BagToSet(channel) :
          (Takes(m) /\ m.kind \in MalformedKinds)
          => (investors' = investors /\ listener'.pc = "polling" /\ listener'.running)
      ]_vars

\* C10: every published event carries the id of a committed record, no id is published
\* twice, and no event is published for an insert that was rolled back.
C10_PublishAfterCommit ==
    /\ publishedIds \subseteq Ids(committed)
    /\ ~dupPublish
    /\ publishedIds \cap rolledBack = {}

C10_Witness == publishedIds # {} /\ rolledBack # {}

\* C11: in bulk_create_commitments one publish runs for each created record (each
\* row the SELECT read back); whichever of them fail, the others still run, the
\* call returns the created commitments, and the created records stay committed.
C11_BulkPublishFailuresAbsorbed ==
    \A r \in Slots :
        req[r].kind = "bulk"
        => /\ (req[r].pc = "publishing" \/ req[r].found # {})
              => /\ req[r].found = req[r].rows \cap committed
                 /\ req[r].found # {}
                 /\ req[r].tried \subseteq req[r].found
                 /\ Ids(req[r].found) \cap rolledBack = {}
           /\ (req[r].pc = "done" /\ req[r].found # {})
              => /\ req[r].tried = req[r].found
                 /\ req[r].result = "created"

\* a bulk request of two records has returned: one publish failed, the other
\* reached the channel
C11_Witness ==
    \E r \in Slots :
        /\ req[r].kind = "bulk" /\ req[r].pc = "done"
        /\ Cardinality(req[r].found) = 2
        /\ Cardinality(Ids(req[r].found) \cap publishedIds) = 1
        /\ req[r].result = "created"

\* the run has returned
Returned(r) == r.stage = "done"

CountFields == {"asset_classes_created", "investors_created", "commitments_created"}

\* C13: whatever the remote calls of the stages end with (the expected answer,
\* another status, a transport error, an unreadable body), what process_dataframe
\* returns is a result with status completed or failed that carries the three
\* created counts; until it returns the run stands at one of its stages, no
\* outcome takes it anywhere else.
C13_StructuredResult ==
    /\ run.stage \in {"start", "fetch", "bulk", "fallback", "cm_fetch", "cm_bulk", "done"}
    /\ ~Returned(run) => run.result = NoResult
    /\ Returned(run)
       => /\ run.result.status \in {"completed", "failed"}
          /\ CountFields \subseteq DOMAIN run.result
          /\ \A f \in CountFields : run.result[f] \in Nat

\* both bulk creates failed, both fallbacks ran, and the run returned its result
C13_Witness ==
    /\ Returned(run)
    /\ run.fb.ac.used /\ run.fb.inv.used
    /\ run.faults >= 2
    /\ run.result.status \in {"completed", "failed"}

\* C14: provided every remote call ends with an answer or an error, every run
\* eventually returns (Reported or Failed), also when the commitment listing
\* keeps raising transport errors.
C14_RunTerminates == <>Returned(run)

NoCalls == [ac |-> 0, inv |-> 0, cm |-> 0]

\* C15: a batch with the required columns and no row makes no call to the asset
\* class, investor or commitment service, and process_dataframe returns with
\* asset_classes_created, investors_created and commitments_created all 0.
C15_EmptyBatch ==
    (validate_csv_structure(df) /\ df.rows = << >>)
    => /\ run.calls = NoCalls
       /\ run.creates = [ac |-> 0, inv |-> 0]
       /\ Returned(run)
          => \A f \in CountFields : run.result[f] = 0

C15_Witness ==
    /\ Returned(run)
    /\ validate_csv_structure(df) /\ df.rows = << >>
    /\ run.result.status = "failed"
    /\ run.result.commitments_created = 0

\* C16: when a required column is missing the run ends with status failed and
\* all created counts 0, and no list, create or bulk-create call is made to any
\* service.
C16_MissingColumn ==
    ~df.cols
    => /\ run.calls = NoCalls
       /\ run.creates = [ac |-> 0, inv |-> 0]
       /\ run.stage \in {"start", "done"}
       /\ Returned(run)
          => /\ run.result.status = "failed"
             /\ run.result.error = "Invalid CSV structure"
             /\ \A f \in CountFields : run.result[f] = 0

\* a batch with rows and without a required column has been turned down
C16_Witness ==
    /\ Returned(run)
    /\ ~df.cols /\ df.rows # << >>
    /\ run.result.status = "failed"

\* C17: when the service has shut down (the listener task was cancelled and the
\* shutdown code has run to its end) the loop has stopped, the subscription to
\* investor_updates is gone and the connection is released.
C17_ShutdownReleases ==
    listener.lifespan = "down" => (listener.pc = "stopped" /\ ~subscribed)

\* the bag of the keys of a sequence of create requests
KeysOf(reqs) == BagOfSeq([i \in DOMAIN reqs |-> unique_commitment_key(reqs[i])])

\* C18: the commitment store enforces no uniqueness on the key
\* investor_id:asset_class_id:amount:currency.  A commitment that another client
\* creates after the run took its dedup snapshot passes by the filter: when the
\* bulk create has succeeded the store holds every record of the run's request
\* and every directly created record, duplicates of a key included.
C18_DuplicatesPersist ==
    /\ run.stage = "cm_bulk" => cmStore = KeysOf(run.direct)
    /\ (Returned(run) /\ run.result.commitments_created > 0)
       => cmStore = KeysOf(run.request) (+) KeysOf(run.direct)

\* a request of one commitment, created directly as well: the store holds two
\* records with the same key
C18_Witness ==
    /\ Returned(run)
    /\ Len(run.request) = 1 /\ Len(run.direct) = 1
    /\ run.result.commitments_created = 1
    /\ CopiesIn(unique_commitment_key(run.request[1]), cmStore) = 2

\* the events for investor i in flight, and the one the listener has in hand
InFlight(i) == {m \in BagToSet(channel) : m.kind = "event" /\ m.investor_id = i}
InHand(i) ==
    IF listener.pc = "writing" /\ listener.ev.investor_id = i THEN {listener.ev} ELSE {}

\* C19: in one aggregator the handling of events is serialized.  At its poll the
\* listener holds no event; when it writes, the aggregate it read is still the
\* stored one; and while it runs (every message delivered once) the aggregate of
\* InvX is the initial one plus exactly the events for InvX taken off the channel
\* and written: no update is lost.
C19_Serialized ==
    /\ listener.pc = "polling" => listener.ev = NoEvent
    /\ listener.pc = "writing"
       => /\ listener.ev.kind = "event"
          /\ listener.read = investors[listener.ev.investor_id]
    /\ (listener.pc \in {"polling", "writing"} /\ dups = 0)
       => /\ investors[InvX].commitment_count =
                agg0.commitment_count + sent.n
                - Cardinality(InFlight(InvX)) - Cardinality(InHand(InvX))
          /\ investors[InvX].total_commitment_amount =
                agg0.total_commitment_amount + sent.sum
                - SumAmounts(InFlight(InvX)) - SumAmounts(InHand(InvX))

\* the second event for InvX is about to be written on top of the first
C19_Witness ==
    /\ listener.pc = "writing"
    /\ listener.ev.investor_id = InvX
    /\ dups = 0
    /\ investors[InvX].commitment_count = agg0.commitment_count + 1
    /\ listener.read = investors[InvX]

\* C20: the aggregator does not deduplicate by commitment_id: when the one event
\* published for the existing investor InvX has been delivered k times (once and
\* k - 1 redeliveries) and all deliveries are handled, commitment_count is up by
\* k and total_commitment_amount by k times the amount.
C20_DuplicatesCounted ==
    ( /\ listener.pc = "polling"
      /\ channel = EmptyBag
      /\ nextId = 2 /\ sent.n = 1 /\ injected = 0 )
    => investors[InvX] =
          [commitment_count |-> agg0.commitment_count + (1 + dups),
           total_commitment_amount |->
               agg0.total_commitment_amount + (1 + dups) * sent.sum]

\* one event of amount 250, delivered twice, both deliveries applied
C20_Witness ==
    /\ listener.pc = "polling"
    /\ channel = EmptyBag
    /\ nextId = 2 /\ sent = [n |-> 1, sum |-> 250] /\ injected = 0
    /\ dups = 1
    /\ investors[InvX].commitment_count = agg0.commitment_count + 2
    /\ investors[InvX].total_commitment_amount = agg0.total_commitment_amount + 500

\* the committed records of investor i whose publish did not fail
Announced(i) == {c \in RecordsOf(i) : c.id \notin pubFailed}

\* C21: a committed record whose publish failed is never published afterwards
\* (no step retries), and the aggregate of its investor never accounts for it:
\* commitment_count and total_commitment_amount stay within the records whose
\* publish did not fail, and once everything else is delivered and applied they
\* are exactly the count and the sum of those records.
C21_FailedPublishNeverApplied ==
    /\ pubFailed \subseteq Ids(committed)
    /\ pubFailed \cap publishedIds = {}
    /\ \A i \in DOMAIN investors :
          /\ investors[i].commitment_count <= Cardinality(Announced(i))
          /\ investors[i].total_commitment_amount <= SumAmounts(Announced(i))
          /\ (Drained /\ ~chanFault /\ ~missedInv)
             => /\ investors[i].commitment_count = Cardinality(Announced(i))
                /\ investors[i].total_commitment_amount = SumAmounts(Announced(i))

\* two records of one investor are committed, the publish of one failed: with
\* nothing left in flight the aggregate counts the other one only
C21_Witness ==
    /\ Drained /\ ~chanFault /\ ~missedInv
    /\ \E i \in DOMAIN investors :
          /\ Cardinality(RecordsOf(i)) = 2
          /\ Cardinality(RecordsOf(i) \cap {c \in committed : c.id \in pubFailed}) = 1
          /\ investors[i].commitment_count = 1

\* C22: when every list-page request succeeds the investor snapshot holds an
\* entry for every requested name that the investor store holds a document of,
\* however many documents the store holds: a name handed to the bulk create
\* after a listing without failure is the name of no stored investor.
C22_SnapshotComplete ==
    (run.stage = "bulk" /\ run.kind = "inv" /\ run.faults = 0)
    => \A n \in Range(run.name_order) : invStore[n] = 0

\* the investor listing of the run has returned its snapshot, and the snapshot
\* lacks some requested name: list calls made so far = pages requested
SnapshotReturned(r) == r.stage = "bulk" /\ r.kind = "inv"

\* C23: when pages 1..k-1 of the investor listing succeeded and the request for
\* page k failed (non-200 or transport error), the snapshot holds an entry for
\* every requested name that has a document on pages 1..k-1.
C23_PartialSnapshotKept ==
    SnapshotReturned(run)
    => \A n \in Range(run.names.inv) :
          (invStore[n] > 0 /\ Rank(n, invStore[n]) <= (run.calls.inv - 1) * PageSize)
          => n \in DOMAIN run.map.inv

\* the resolver of the kind has returned in run r
Resolved(kind, r) == IF kind = "ac" THEN AcResolved(r) ELSE InvResolved(r)

\* C24: when the bulk create answers 200 with a list of k items for n requested
\* names (k <= n), the id of the i-th item is given to the i-th requested name
\* for every i up to k, the other n - k names get no entry, and the individual
\* creates are not called: the bulk create is the one create call of the kind.
\* With k = n every name of the batch has an id, that of a document of its name.
C24_ShortBulkResponse ==
    \A kind \in Kinds :
        LET b == run.bk[kind]
            k == Len(b.items)
        IN /\ ( /\ Resolved(kind, run) /\ ~b.answered
                /\ run.creates[kind] = 1 /\ run.fb[kind] = NoFb )
              => \A n \in Range(run.names[kind]) :
                    n \in DOMAIN run.map[kind] /\ run.map[kind][n][1] = n
           /\ b.answered
              => /\ k < Len(b.names)
                 /\ \A i \in 1..k : /\ b.names[i] \in DOMAIN run.map[kind]
                                     /\ run.map[kind][b.names[i]] = b.items[i]
                 /\ \A i \in (k + 1)..Len(b.names) :
                       b.names[i] \notin DOMAIN run.map[kind]
                 /\ run.fb[kind] = NoFb
                 /\ run.creates[kind] = 1
                 /\ ~(run.stage = "fallback" /\ run.kind = kind)

\* two names asked, one item returned, and it is the document of the second
\* name: the first name has its id, the second has none
C24_Witness ==
    \E kind \in Kinds :
        LET b == run.bk[kind]
        IN /\ b.answered
           /\ Len(b.names) = 2 /\ Len(b.items) = 1
           /\ b.items[1][1] = b.names[2]
           /\ run.map[kind][b.names[1]] = b.items[1]
           /\ b.names[2] \notin DOMAIN run.map[kind]
           /\ Returned(run)

\* the top-level stage of process_dataframe the run stands in: 0 validate and
\* parse, 1 asset class resolution, 2 investor resolution, 3 commitment
\* filtering (dedup snapshot and filter), 4 commitment bulk create, 5 returned
Phase(r) ==
    CASE r.stage = "start" -> 0
      [] r.stage \in {"fetch", "bulk", "fallback"} /\ r.kind = "ac" -> 1
      [] r.stage \in {"fetch", "bulk", "fallback"} /\ r.kind = "inv" -> 2
      [] r.stage \in {"cm_fetch", "cm_retry"} -> 3
      [] r.stage = "cm_bulk" -> 4
      [] r.stage = "done" -> 5

\* C25: the stages of a run occur in the order validate/parse, asset class
\* resolution, investor resolution, commitment filtering, commitment bulk
\* create, report.  No step takes the run back to an earlier stage, each stage
\* is entered from the one before it, the asset class service is called in
\* stage 1 only and before any other service, the investor service in stage 2
\* only and before the commitment service, the commitment service in stages 3
\* and 4 only.
C25_StageOrder ==
    [][ /\ Phase(run') >= Phase(run)
        /\ Phase(run') \in 1..4 => Phase(run) \in {Phase(run') - 1, Phase(run')}
        /\ Phase(run) = 4 => Phase(run') = 5
        /\ run'.calls.ac # run.calls.ac
           => (Phase(run) = 1 /\ run.calls.inv = 0 /\ run.calls.cm = 0)
        /\ run'.calls.inv # run.calls.inv
           => (Phase(run) = 2 /\ run.calls.cm = 0)
        /\ run'.calls.cm # run.calls.cm => Phase(run) \in {3, 4}
      ]_vars

\* a run that went through every stage and called every service
C25_Witness ==
    /\ Returned(run)
    /\ run.result.status = "completed"
    /\ run.calls.ac > 0 /\ run.calls.inv > 0 /\ run.calls.cm >= 2
    /\ run.result.commitments_created > 0

\* C26: the bulk create of the commitment store returns an empty list, which
\* the run reports as commitments_created 0, only when no record of the batch
\* was committed.
C26_EmptyListMeansNothingCommitted ==
    \A r \in Slots :
        (req[r].kind = "bulk" /\ req[r].pc = "done" /\ req[r].result = "none")
        => req[r].rows \cap committed = {}

\* C27: an investor is created with commitment_count 0 and
\* total_commitment_amount 0; afterwards its two fields change only in the step
\* in which the aggregator writes an event for that investor, and that one step
\* raises the count by exactly 1 and the total by exactly the amount of the
\* event.  No step of the commitment service (insert, commit, read, publish)
\* and no other step changes them, and no investor is removed.
C27_AggregateFrame ==
    [][ /\ DOMAIN investors \subseteq DOMAIN investors'
        /\ \A i \in DOMAIN investors' :
              IF i \notin DOMAIN investors
              THEN investors'[i] = [commitment_count |-> 0, total_commitment_amount |-> 0]
              ELSE investors'[i] # investors[i]
                   => /\ listener.pc = "writing" /\ listener'.pc = "polling"
                      /\ listener.ev.kind = "event"
                      /\ listener.ev.investor_id = i
                      /\ investors'[i].commitment_count
                            = investors[i].commitment_count + 1
                      /\ investors'[i].total_commitment_amount
                            = investors[i].total_commitment_amount + listener.ev.amount
                      /\ UNCHANGED << committed, pending, req, channel >>
      ]_vars

\* an investor created during the run has had two events applied (100 and 250)
\* while another investor, created as well, is still at 0 and 0
C27_Witness ==
    /\ DOMAIN investors = InvestorIds
    /\ \E i, j \in InvestorIds :
          /\ investors[i] = [commitment_count |-> 2, total_commitment_amount |-> 350]
          /\ investors[j] = [commitment_count |-> 0, total_commitment_amount |-> 0]
    /\ listener.pc = "polling"

\* the candidates of run r that resolve to the key of request q
SameKey(r, q) ==
    {i \in DOMAIN r.commitments :
        /\ Resolvable(r.commitments[i], r.map.inv, r.map.ac)
        /\ unique_commitment_key(
               CommitmentCreateRequest(r.commitments[i], r.map.inv, r.map.ac))
           = unique_commitment_key(q)}

\* C28: the dedup set is the snapshot and is not extended while the batch is
\* filtered: the bulk-create request holds one entry for every candidate with
\* both dependencies resolved whose key the snapshot lacks, so candidates of
\* the batch that share a key are all in the request, in batch order.
C28_BatchDuplicatesKept ==
    (run.stage = "cm_bulk" \/ (Returned(run) /\ run.calls.cm >= 2))
    => /\ Len(run.request) = run.valid
       /\ \A k \in DOMAIN run.request :
             Cardinality({j \in DOMAIN run.request : run.request[j] = run.request[k]})
                = Cardinality(SameKey(run, run.request[k]))

\* two rows of the batch with the same investor, asset class, amount and
\* currency: both were requested and both are stored
C28_Witness ==
    /\ Returned(run)
    /\ Len(run.request) = 2
    /\ run.request[1] = run.request[2]
    /\ run.result.commitments_created = 2
    /\ CopiesIn(unique_commitment_key(run.request[1]), cmStore) = 2

\* C29: the individual creates of the fallback run side by side and finish in
\* any order.  A finished call has its own result (the id of the document it
\* created, or none), whichever calls finished before it; a call that fails
\* stops no other call; and when the fallback returns, every name has had its
\* one call and the mapping holds exactly the names whose call succeeded, each
\* with the id its own call returned.
C29_FallbackOrderIndependent ==
    \A kind \in Kinds :
        LET f == run.fb[kind]
        IN /\ (run.stage = "fallback" /\ run.kind = kind)
              => /\ DOMAIN run.results \subseteq Range(f.names)
                 /\ \A n \in Range(f.names) :
                       f.calls[n] = IF n \in DOMAIN run.results THEN 1 ELSE 0
                 /\ \A n \in DOMAIN run.results :
                       run.results[n] = IF n \in f.ok
                                        THEN << <<n, Store(kind)[n]>> >>
                                        ELSE << >>
           /\ f.used
              => /\ \A n \in Range(f.names) : f.calls[n] = 1
                 /\ f.mapping = [n \in f.ok |-> <<n, Store(kind)[n]>>]

\* of two calls the second one has finished first, with a failure, while the
\* first one is still under way
C29_Witness ==
    /\ run.stage = "fallback"
    /\ Len(run.name_order) = 2
    /\ DOMAIN run.results = {run.name_order[2]}
    /\ run.results[run.name_order[2]] = << >>
    /\ run.fb[run.kind].calls[run.name_order[1]] = 0

\* C30: every candidate that leaves the parser has an amount above 0.  A row
\* with a zero or negative amount is dropped by parse_csv_data, before the
\* first call of the resolution: the candidates of the run are the rows with a
\* positive amount, in batch order, so no other row is in the bulk-create
\* request or in the commitment store.
C30_PositiveAmounts ==
    /\ run.stage = "start" => (run.commitments = << >> /\ run.calls = NoCalls)
    /\ (run.stage # "start" /\ df.cols)
       => Len(run.commitments) = Cardinality({i \in DOMAIN df.rows : df.rows[i].amt > 0})
    /\ \A i \in DOMAIN run.commitments :
          run.commitments[i].amt > 0 /\ run.commitments[i] \in Range(df.rows)
    /\ \A k \in DOMAIN run.request : run.request[k].amount > 0
    /\ \A key \in BagToSet(cmStore) : key[3] > 0

\* a batch with a negative and a positive amount: the request and the store hold
\* the positive one only
C30_Witness ==
    /\ Returned(run)
    /\ Len(df.rows) = 2 /\ df.rows[1].amt < 0 /\ df.rows[2].amt > 0
    /\ Len(run.request) = 1
    /\ BagCardinality(cmStore) = 1
    /\ run.result.commitments_created = 1

====
